---- MODULE Spec2Model ----
(***************************************************************************)
(* MortalityPrediction (cyclops/tasks/mortality_prediction.py): a task     *)
(* controller holding a registry of model handles and two fit-state lists. *)
(* One action per public method; every action records the call it made     *)
(* (op), how it ended (outcome), what it returned (ret) and the sequence   *)
(* of collaborator operations it invoked (calls). Calls are sequential:    *)
(* Return hands the result to the caller before the next call is made.     *)
(***************************************************************************)
EXTENDS Integers, Sequences, FiniteSets

VARIABLES
    constructed,        \* TRUE once __init__ has returned
    models,             \* self.models: ordered dict, a sequence of [name, model]
    trained_models,     \* self.trained_models: list of names
    pretrained_models,  \* self.pretrained_models: list of names
    bmp,                \* the caller's search-configuration dict object
    fbArgs,             \* arguments of the most recent find_best call
    completed,          \* names whose train or load has returned normally
    op,                 \* the call that has just returned (Idle between calls)
    outcome,            \* "ok" or the exception the call raised
    ret,                \* the value the call returned
    calls               \* collaborator operations the call invoked, in order

vars == <<constructed, models, trained_models, pretrained_models, bmp, fbArgs,
          completed, op, outcome, ret, calls>>

(* ------------------------------ bounds -------------------------------- *)
MaxRows == 2    \* longest raw array
MaxFit == 2     \* most entries in trained_models and pretrained_models together
MaxEval == 2    \* longest explicit model_names list given to evaluate

(* ------------------------------ values -------------------------------- *)
None == "None"
RegNames == {"m1", "m2"}
ArgNames == RegNames \cup {"zz"}
NameArgs == ArgNames \cup {None, ""}

\* Model handles: wrapper type and the class name of the wrapped estimator.
Handles ==
    { [id |-> 1, wrapper |-> "SKModel", cls |-> "SGDClassifier"],
      [id |-> 2, wrapper |-> "SKModel", cls |-> "RandomForestClassifier"],
      [id |-> 3, wrapper |-> "PTModel", cls |-> "LSTMModel"] }

\* cyclops.models.catalog._model_names_mapping.get(cls)
model_names_mapping(cls) ==
    CASE cls = "SGDClassifier" -> "sgd_classifier"
      [] cls = "RandomForestClassifier" -> "rf_classifier"
      [] cls = "LSTMModel" -> "lstm"
      [] OTHER -> None

\* cyclops.models.catalog._static_model_keys
static_model_keys == {"sgd_classifier", "rf_classifier"}

Range(s) == {s[i] : i \in 1..Len(s)}

\* A prepared model collection (the dict prepare_models returns for one or
\* more models), in insertion order, keys unique.
Pairs == [name : RegNames, model : Handles]
PreparedDicts ==
    UNION { { s \in [1..k -> Pairs] :
                \A i, j \in 1..k : i # j => s[i].name # s[j].name } :
            k \in 1..Cardinality(RegNames) }

Keys(d) == [i \in 1..Len(d) |-> d[i].name]
DictGet(d, k) == d[CHOOSE i \in 1..Len(d) : d[i].name = k].model

\* dict.update for one key: rebinding keeps the key's position, a new key
\* goes last.
DictSet(d, k, v) ==
    IF k \in Range(Keys(d))
    THEN [i \in 1..Len(d) |-> IF d[i].name = k THEN [name |-> k, model |-> v] ELSE d[i]]
    ELSE Append(d, [name |-> k, model |-> v])

RECURSIVE DictUpdate(_, _)
DictUpdate(d, e) ==
    IF e = <<>> THEN d
    ELSE DictUpdate(DictSet(d, Head(e).name, Head(e).model), Tail(e))

\* dict.pop(k, default) on a dict held as a function over its keys.
PopValue(d, k, default) == IF k \in DOMAIN d THEN d[k] ELSE default
PopRest(d, k) == [x \in (DOMAIN d) \ {k} |-> d[x]]

\* The search-configuration dict the caller holds: a metric, a method and a
\* search space.
ParamDicts ==
    { [k \in {"metric", "method", "C"} |->
          CASE k = "metric" -> "f1" [] k = "method" -> "random" [] OTHER -> "1,10"] }

NoCall == [called |-> FALSE]
Idle == [name |-> "idle"]

(* ------------------------- pure methods ------------------------------- *)
models_count == Len(models)
list_models == Keys(models)

\* _validate_models applied to a registry d
validate_models(d) ==
    \A i \in 1..Len(d) : model_names_mapping(d[i].model.cls) \in static_model_keys

Falsy(model_name) == model_name \in {None, ""}

Raise(exc, msg) == [ok |-> FALSE, exc |-> exc, msg |-> msg]

\* line 178: more than one model and no name given
ambiguous_lenient(model_name) == models_count > 2 /\ Falsy(model_name)
ambiguous(model_name) == models_count > 1 /\ Falsy(model_name)

\* line 180: a name was given and it is not a key of the registry
unknown_lenient(model_name) ==
    models_count > 1 /\ ~Falsy(model_name) /\ model_name \notin Range(list_models)
unknown(model_name) == ~Falsy(model_name) /\ model_name \notin Range(list_models)

get_model(model_name) ==
    IF ambiguous(model_name)
    THEN Raise("ValueError", "Please specify a model")
    ELSE IF unknown(model_name)
    THEN Raise("ValueError", "The model does not exist")
    ELSE IF Falsy(model_name) /\ Len(list_models) = 0
    THEN Raise("IndexError", "list index out of range")
    ELSE LET n == IF ~Falsy(model_name) THEN model_name ELSE list_models[1]
         IN  IF n \notin Range(list_models)
             THEN Raise("KeyError", n)
             ELSE [ok |-> TRUE, name |-> n, model |-> DictGet(models, n)]

(* ------------------------- data sources ------------------------------- *)
IsDataset(X) == X.type \in {"Dataset", "DatasetDict"}

\* cyclops.tasks.utils.to_numpy: the rows of an array or a table as an ndarray
to_numpy(X) == [type |-> "ndarray", len |-> X.len]

Call(fn, m) == [fn |-> fn, model |-> m]

\* try: transforms.transform(X)  except NotFittedError: transforms.fit_transform(X)
\* (both keep the number of rows); warn is predict's LOGGER.warning.
apply_transforms(transforms, warn) ==
    CASE transforms = None -> <<>>
      [] transforms = "fitted" -> <<Call("transforms.transform", "-")>>
      [] OTHER ->
           <<Call("transforms.transform", "-")>>
           \o (IF warn THEN <<Call("LOGGER.warning", "-")>> ELSE <<>>)
           \o <<Call("transforms.fit_transform", "-")>>

\* line 268: assert len(X) == len(y)
lengths_unchecked(X, y) == TRUE
lengths_match(X, y) == X.len = y.len

\* a dict is truthy when it is given and not empty
Truthy(use) == use /\ DOMAIN bmp # {}

\* lines 230-231 / 271-272: metric and method are popped from the caller's dict
popped == PopRest(PopRest(bmp, "metric"), "method")
search_args ==
    [called |-> TRUE,
     space  |-> popped,
     metric |-> PopValue(bmp, "metric", None),
     method |-> PopValue(PopRest(bmp, "metric"), "method", "grid")]

\* lines 352 and 455: the names usable for inference
fitted_trained_only == trained_models
fitted_names == pretrained_models \o trained_models

\* line 284 is reached only when the handle's fit / find_best returned
append_always(handle_raised) == TRUE
append_reached(handle_raised) == ~handle_raised

\* train(X, y, model_name, transforms, best_model_params): use says whether
\* the caller passes its dict; hfail says whether the handle's operation raises.
train(X, y, model_name, transforms, use, hfail) ==
    LET r == get_model(model_name)
        fitcall == IF Truthy(use) THEN "find_best" ELSE "fit"
        base == [outcome |-> "ok", calls |-> <<>>, name |-> None, added |-> FALSE,
                 bmp |-> bmp, fb |-> fbArgs]
        fitted(pre) ==
            [base EXCEPT
               !.outcome = IF hfail THEN "HandleError" ELSE "ok",
               !.calls = pre \o <<Call(fitcall, r.name)>>,
               !.name = r.name,
               !.added = append_reached(hfail),
               !.bmp = IF Truthy(use) THEN popped ELSE bmp,
               !.fb = IF Truthy(use) THEN search_args ELSE fbArgs]
    IN  IF ~r.ok THEN [base EXCEPT !.outcome = r.exc]
        ELSE IF IsDataset(X) THEN fitted(<<>>)
        ELSE IF y.type = "None"
        THEN [base EXCEPT !.outcome = "ValueError", !.name = r.name]
        ELSE LET pre == apply_transforms(transforms, FALSE)
             IN  IF ~lengths_match(to_numpy(X), to_numpy(y))
                 THEN [base EXCEPT !.outcome = "AssertionError", !.calls = pre,
                                   !.name = r.name]
                 ELSE fitted(pre)

\* predict(dataset, model_name, transforms, proba)
predict(dataset, model_name, transforms, proba, hfail) ==
    LET r == get_model(model_name)
        base == [outcome |-> "ok", calls |-> <<>>, ret |-> <<>>]
        fn == IF proba /\ r.model.wrapper = "SKModel" THEN "predict_proba" ELSE "predict"
        ran(pre, out) ==
            [outcome |-> IF hfail THEN "HandleError" ELSE "ok",
             calls |-> pre \o <<Call(fn, r.name)>>,
             ret |-> IF hfail THEN <<>> ELSE <<out>>]
    IN  IF ~r.ok THEN [base EXCEPT !.outcome = r.exc]
        ELSE IF r.name \notin Range(fitted_names)
        THEN [base EXCEPT !.outcome = "NotFittedError"]
        ELSE IF IsDataset(dataset)
        THEN ran(<<>>, [dataset EXCEPT !.cols = @ \cup {r.name}])
        ELSE ran(apply_transforms(transforms, TRUE),
                 [type |-> "ndarray", len |-> to_numpy(dataset).len])

\* lines 449-452: a string becomes a one-element list; None or an empty list
\* becomes every fitted name
normalize(model_names) ==
    IF model_names.kind = "str" THEN model_names.v
    ELSE IF model_names.v = <<>> THEN fitted_names
    ELSE model_names.v

\* lines 454-468: the loop over model_names; failName is the model whose
\* handle raises in predict. The source is a Dataset, so predict hands the
\* transforms to the handle and applies none itself.
RECURSIVE evaluate_loop(_, _, _, _)
evaluate_loop(names, dataset, failName, acc) ==
    IF names = <<>>
    THEN [outcome |-> "ok", calls |-> acc, dataset |-> dataset]
    ELSE LET n == Head(names)
             warn == IF n \notin Range(fitted_names)
                     THEN <<Call("LOGGER.warning", n)>> ELSE <<>>
             r == get_model(n)
             p == predict(dataset, n, None, TRUE, r.ok /\ r.name = failName)
         IN  IF p.outcome # "ok"
             THEN [outcome |-> p.outcome, calls |-> acc \o warn \o p.calls,
                   dataset |-> dataset]
             ELSE evaluate_loop(Tail(names), p.ret[1], failName,
                                acc \o warn \o p.calls)

\* evaluate(dataset, metrics, model_names)
evaluate(dataset, metrics, model_names, failName) ==
    LET build == IF metrics = "names" THEN <<Call("MetricCollection", "-")>> ELSE <<>>
        l == evaluate_loop(normalize(model_names), dataset, failName, build)
    IN  IF l.outcome # "ok"
        THEN [outcome |-> l.outcome, calls |-> l.calls, dataset |-> dataset,
              ret |-> <<>>]
        ELSE [outcome |-> "ok",
              calls |-> l.calls \o <<Call("evaluate", "-")>>,
              dataset |-> l.dataset,
              ret |-> <<"results", l.dataset>>]

(* ------------------------------ inputs -------------------------------- *)
Datasets == {[type |-> "Dataset", len |-> MaxRows, cols |-> {}]}
Arrays == [type : {"ndarray"}, len : 1..MaxRows]
Tables == {[type |-> "DataFrame", len |-> MaxRows]}
NoLabels == [type |-> "None", len |-> 0]
Labels == {NoLabels} \cup Arrays
Transforms == {None, "fitted", "unfitted"}
\* (X, y, transforms) given to train
TrainInputs ==
    {<<X, NoLabels, None>> : X \in Datasets}
    \cup {<<X, y, None>> : X \in Arrays, y \in Labels}
    \cup {<<X, y, t>> : X \in Tables, y \in Arrays, t \in {"fitted", "unfitted"}}
\* (dataset, transforms) given to predict
PredictInputs ==
    {<<d, None>> : d \in Datasets} \cup {<<d, t>> : d \in Tables, t \in Transforms}
ModelNameArgs == ArgNames \cup {None}
NameLists == UNION {[1..k -> RegNames] : k \in 0..MaxEval}
EvalNames ==
    {[kind |-> "None", v |-> <<>>]}
    \cup {[kind |-> "str", v |-> <<n>>] : n \in ArgNames}
    \cup {[kind |-> "list", v |-> l] : l \in NameLists}

Init ==
    /\ constructed = FALSE
    /\ models = <<>>
    /\ trained_models = <<>>
    /\ pretrained_models = <<>>
    /\ bmp \in ParamDicts
    /\ fbArgs = NoCall
    /\ completed = {}
    /\ op = Idle
    /\ outcome = "ok"
    /\ ret = <<>>
    /\ calls = <<>>

\* __init__(models): model_dict is what prepare_models returned; it is
\* validated, then the empty fit-state lists are created. A failed assertion
\* leaves no instance.
Construct(model_dict) ==
    /\ ~constructed
    /\ op = Idle
    /\ op' = [name |-> "__init__", model_dict |-> model_dict]
    /\ calls' = <<>>
    /\ ret' = <<>>
    /\ IF validate_models(model_dict)
       THEN /\ constructed' = TRUE
            /\ models' = model_dict
            /\ trained_models' = <<>>
            /\ pretrained_models' = <<>>
            /\ outcome' = "ok"
       ELSE /\ outcome' = "AssertionError"
            /\ UNCHANGED <<constructed, models, trained_models, pretrained_models>>
    /\ UNCHANGED <<bmp, fbArgs, completed>>

\* add_model(model): model_dict is what prepare_models returned
AddModel(model_dict) ==
    /\ constructed
    /\ op = Idle
    /\ op' = [name |-> "add_model", model_dict |-> model_dict]
    /\ outcome' = "ok"
    /\ ret' = <<>>
    /\ IF Range(Keys(model_dict)) \subseteq Range(list_models)
       THEN /\ calls' = <<Call("LOGGER.error", "-")>>
            /\ UNCHANGED models
       ELSE /\ calls' = <<Call("LOGGER.info", "-")>>
            /\ models' = DictUpdate(models, model_dict)
    /\ UNCHANGED <<constructed, trained_models, pretrained_models, bmp, fbArgs,
                   completed>>

GetModel(model_name) ==
    /\ constructed
    /\ op = Idle
    /\ LET r == get_model(model_name)
       IN  /\ op' = [name |-> "get_model", model_name |-> model_name]
           /\ outcome' = IF r.ok THEN "ok" ELSE r.exc
           /\ ret' = IF r.ok THEN <<r.name, r.model>> ELSE <<>>
    /\ calls' = <<>>
    /\ UNCHANGED <<constructed, models, trained_models, pretrained_models, bmp,
                   fbArgs, completed>>

Room == Len(trained_models) + Len(pretrained_models) < MaxFit

Train(X, y, model_name, transforms, use, hfail) ==
    /\ constructed
    /\ op = Idle
    /\ LET t == train(X, y, model_name, transforms, use, hfail)
       IN  /\ t.added => Room
           /\ op' = [name |-> "train", model_name |-> model_name, X |-> X, y |-> y]
           /\ outcome' = t.outcome
           /\ calls' = t.calls
           /\ ret' = IF t.outcome = "ok" THEN <<DictGet(models, t.name)>> ELSE <<>>
           /\ trained_models' = IF t.added THEN Append(trained_models, t.name)
                                ELSE trained_models
           /\ completed' = IF t.outcome = "ok" THEN completed \cup {t.name}
                           ELSE completed
           /\ bmp' = t.bmp
           /\ fbArgs' = t.fb
    /\ UNCHANGED <<constructed, models, pretrained_models>>

\* load_pretrained_model(filepath, model_name)
LoadPretrainedModel(model_name, hfail) ==
    /\ constructed
    /\ op = Idle
    /\ LET r == get_model(model_name)
           loaded == r.ok /\ append_reached(hfail)
       IN  /\ loaded => Room
           /\ op' = [name |-> "load_pretrained_model", model_name |-> model_name]
           /\ outcome' = IF ~r.ok THEN r.exc ELSE IF hfail THEN "HandleError" ELSE "ok"
           /\ calls' = IF r.ok THEN <<Call("load_model", r.name)>> ELSE <<>>
           /\ ret' = IF r.ok /\ ~hfail THEN <<r.model>> ELSE <<>>
           /\ pretrained_models' = IF loaded THEN Append(pretrained_models, r.name)
                                   ELSE pretrained_models
           /\ completed' = IF r.ok /\ ~hfail THEN completed \cup {r.name}
                           ELSE completed
    /\ UNCHANGED <<constructed, models, trained_models, bmp, fbArgs>>

Predict(dataset, model_name, transforms, proba, hfail) ==
    /\ constructed
    /\ op = Idle
    /\ LET p == predict(dataset, model_name, transforms, proba, hfail)
       IN  /\ op' = [name |-> "predict", model_name |-> model_name,
                     dataset |-> dataset]
           /\ outcome' = p.outcome
           /\ calls' = p.calls
           /\ ret' = p.ret
    /\ UNCHANGED <<constructed, models, trained_models, pretrained_models, bmp,
                   fbArgs, completed>>

Evaluate(dataset, metrics, model_names, failName) ==
    /\ constructed
    /\ op = Idle
    /\ LET e == evaluate(dataset, metrics, model_names, failName)
       IN  /\ op' = [name |-> "evaluate", model_names |-> model_names]
           /\ outcome' = e.outcome
           /\ calls' = e.calls
           /\ ret' = e.ret
    /\ UNCHANGED <<constructed, models, trained_models, pretrained_models, bmp,
                   fbArgs, completed>>

\* The caller has taken the result of the call; the next call can be made.
Return ==
    /\ op # Idle
    /\ op' = Idle
    /\ outcome' = "ok"
    /\ ret' = <<>>
    /\ calls' = <<>>
    /\ UNCHANGED <<constructed, models, trained_models, pretrained_models, bmp,
                   fbArgs, completed>>

Next ==
    \/ Return
    \/ \E d \in PreparedDicts : Construct(d)
    \/ \E d \in PreparedDicts : AddModel(d)
    \/ \E n \in NameArgs : GetModel(n)
    \/ \E i \in TrainInputs, n \in ModelNameArgs, use \in BOOLEAN, hfail \in BOOLEAN :
          Train(i[1], i[2], n, i[3], use, hfail)
    \/ \E n \in ModelNameArgs, hfail \in BOOLEAN : LoadPretrainedModel(n, hfail)
    \/ \E i \in PredictInputs, n \in ModelNameArgs, proba \in BOOLEAN,
          hfail \in BOOLEAN :
          Predict(i[1], n, i[2], proba, hfail)
    \/ \E d \in Datasets, metrics \in {"names", "collection"}, ns \in EvalNames,
          f \in RegNames \cup {None} :
          Evaluate(d, metrics, ns, f)

Spec == Init /\ [][Next]_vars

(* ------------------------------ claims -------------------------------- *)
IsPrefix(a, b) == Len(a) <= Len(b) /\ SubSeq(b, 1, Len(a)) = a
HandleFits(cs) == {i \in 1..Len(cs) : cs[i].fn \in {"fit", "find_best"}}
Predictions(cs, m) ==
    {i \in 1..Len(cs) : cs[i].fn \in {"predict", "predict_proba"} /\ cs[i].model = m}

\* C1: predict(model_name=m) for a registered m raises the not-fitted error
\* exactly when no train and no load_pretrained_model for m has returned
\* normally; a train that returned normally has put m in trained_models and
\* a load that returned normally has put m in pretrained_models.
C1_PredictStrict ==
    /\ (op.name = "predict" /\ op.model_name \in Range(list_models))
          => ((outcome = "NotFittedError") <=> (op.model_name \notin completed))
    /\ (op.name = "train" /\ outcome = "ok")
          => calls[Len(calls)].model \in Range(trained_models)
    /\ (op.name = "load_pretrained_model" /\ outcome = "ok")
          => calls[Len(calls)].model \in Range(pretrained_models)

\* C1 witness: predict has succeeded on a model that was loaded, never trained.
C1_Witness ==
    /\ op.name = "predict" /\ outcome = "ok"
    /\ op.model_name \in Range(pretrained_models)
    /\ op.model_name \notin Range(trained_models)

\* C2 (as stated): evaluate given registered names of which one is in neither
\* trained_models nor pretrained_models does not fail with the not-fitted
\* error.
C2_EvaluateLenient ==
    (/\ op.name = "evaluate"
     /\ op.model_names.kind # "None"
     /\ Range(op.model_names.v) \subseteq Range(list_models)
     /\ \E n \in Range(op.model_names.v) : n \notin Range(fitted_names))
    => outcome # "NotFittedError"

\* C3 (as stated): an add_model whose prepared collection contains a name
\* that is already a key of the registry leaves the registry unchanged and
\* raises nothing.
C3_AnyCollisionRejected ==
    [][(/\ op'.name = "add_model"
        /\ \E i \in 1..Len(op'.model_dict) :
              op'.model_dict[i].name \in Range(list_models))
       => (models' = models /\ outcome' = "ok")]_vars

\* C4 (as stated): once constructed, every handle in the registry has a
\* model kind in the permitted static set.
C4_RegistryValid == constructed => validate_models(models)

\* C5 (as stated): with exactly one registered model, get_model returns that
\* model's (name, handle) pair whatever the name argument.
C5_SingleModelAnyName ==
    (op.name = "get_model" /\ models_count = 1)
    => (outcome = "ok" /\ ret = <<models[1].name, models[1].model>>)

\* C5 (amended): with exactly one registered model, get_model returns that
\* model's (name, handle) pair when the name is omitted (None or the empty
\* string) or is the registered name, and raises ValueError for any other name.
C5_SingleModelKnownName ==
    (op.name = "get_model" /\ models_count = 1)
    => IF Falsy(op.model_name) \/ op.model_name = models[1].name
       THEN outcome = "ok" /\ ret = <<models[1].name, models[1].model>>
       ELSE outcome = "ValueError" /\ ret = <<>>

\* C5 witness: get_model on a one-model registry was given another name.
C5_Witness ==
    /\ op.name = "get_model" /\ models_count = 1
    /\ ~Falsy(op.model_name) /\ op.model_name # models[1].name
    /\ outcome = "ValueError"

\* C6: with two or more registered models, get_model, train,
\* load_pretrained_model and predict called without a name or with a name
\* that is not a registry key raise ValueError before any operation on a
\* model handle, and leave models, trained_models and pretrained_models as
\* they were.
C6_UnresolvedRaises ==
    [][(/\ op'.name \in {"get_model", "train", "load_pretrained_model", "predict"}
        /\ models_count >= 2
        /\ (Falsy(op'.model_name) \/ op'.model_name \notin Range(list_models)))
       => (/\ outcome' = "ValueError"
           /\ calls' = <<>>
           /\ models' = models
           /\ trained_models' = trained_models
           /\ pretrained_models' = pretrained_models)]_vars

\* C6 witness: train without a name on a registry of two models has raised.
C6_Witness ==
    /\ op.name = "train" /\ models_count >= 2 /\ op.model_name = None
    /\ outcome = "ValueError" /\ calls = <<>>

\* C7: train on a raw source whose features and labels differ in length
\* raises without invoking the handle's fit or find_best, and adds nothing
\* to trained_models.
C7_MismatchRaisesBeforeFit ==
    [][(/\ op'.name = "train"
        /\ ~IsDataset(op'.X)
        /\ op'.y.type # "None"
        /\ op'.X.len # op'.y.len)
       => (/\ outcome' \notin {"ok", "HandleError"}
           /\ HandleFits(calls') = {}
           /\ trained_models' = trained_models)]_vars

\* C7 witness: a train call has failed the length assertion.
C7_Witness ==
    /\ op.name = "train" /\ outcome = "AssertionError"
    /\ op.X.len # op.y.len

\* C8: trained_models and pretrained_models only grow, by the resolved name
\* and only in a train (after fit / find_best) or a load (after load_model)
\* that returned normally; a call that raises leaves both as they were.
C8_FitStateMonotone ==
    [][/\ IsPrefix(trained_models, trained_models')
       /\ IsPrefix(pretrained_models, pretrained_models')
       /\ (trained_models' # trained_models)
             => (/\ op'.name = "train" /\ outcome' = "ok"
                 /\ HandleFits(calls') = {Len(calls')}
                 /\ trained_models' =
                       Append(trained_models, calls'[Len(calls')].model)
                 /\ pretrained_models' = pretrained_models)
       /\ (pretrained_models' # pretrained_models)
             => (/\ op'.name = "load_pretrained_model" /\ outcome' = "ok"
                 /\ calls' = <<Call("load_model", calls'[1].model)>>
                 /\ pretrained_models' =
                       Append(pretrained_models, calls'[1].model)
                 /\ trained_models' = trained_models)
       /\ (outcome' # "ok")
             => (/\ trained_models' = trained_models
                 /\ pretrained_models' = pretrained_models)]_vars

\* C8 witness: a train call in which the handle raised has returned, with an
\* earlier success still recorded.
C8_Witness ==
    /\ op.name = "train" /\ outcome = "HandleError"
    /\ Len(trained_models) = 1

\* C9 (as stated): evaluate without model names runs the prediction step
\* exactly once for each trained or pretrained model.
C9_EvaluateOncePerModel ==
    (/\ op.name = "evaluate"
     /\ op.model_names.kind # "str"
     /\ op.model_names.v = <<>>
     /\ outcome = "ok")
    => \A m \in Range(fitted_names) : Cardinality(Predictions(calls, m)) = 1

\* C10 (as stated): a train call that passes the caller's dict to find_best
\* leaves the dict as it was, and passes the same metric, method and search
\* space as the previous such call did.
C10_SearchConfigStable ==
    [][(/\ op'.name = "train"
        /\ calls' # <<>>
        /\ calls'[Len(calls')].fn = "find_best")
       => (/\ bmp' = bmp
           /\ fbArgs.called
                 => (/\ fbArgs'.metric = fbArgs.metric
                     /\ fbArgs'.method = fbArgs.method
                     /\ fbArgs'.space = fbArgs.space))]_vars
====
